---- MODULE Spec2Model ----
(***************************************************************************)
(* Model of the word-association game server: the canonical state of       *)
(* server/state.mjs (round, player registry, join counter) and the HTTP    *)
(* and WebSocket handlers of server/index.mjs that mutate it and send      *)
(* role-scoped messages.                                                   *)
(*                                                                         *)
(* Strings of the program (words, prompts, names) are sequences of         *)
(* one-character strings, so that normalize, norm and sanitizeName are     *)
(* computed character by character as the code computes them.              *)
(* JavaScript null is the empty tuple for the round (round = <<>>) and the *)
(* string Null for a socket's playerId.  A JavaScript number that became   *)
(* NaN is the value NaN below; arithmetic goes through Plus and MaxMinus1. *)
(***************************************************************************)
EXTENDS Integers, Sequences, FiniteSets, TLC

VARIABLES round, players, joinCounter, socks, hostSockets, roundCounter, best, call

vars == <<round, players, joinCounter, socks, hostSockets, roundCounter, best, call>>

\* ------------------------------------------------------------------ bounds
\* Number of rounds that may be started in one behaviour (caps the round ids).
MaxRounds == 2
\* Largest value the join counter may reach (caps the default names).
MaxJoin == 2
\* Number of hello messages one connection may send in its lifetime.
MaxHellos == 1

\* ------------------------------------------------------------------ inputs
Sockets == {"s1", "s2"}
PlayerIds == {"p1", "p2"}
Null == "null"

wApfel == <<"A", "p", "f", "e", "l">>
wapfel == <<"a", "p", "f", "e", "l">>
wBirne == <<"B", "i", "r", "n", "e">>
wconstructor == <<"c", "o", "n", "s", "t", "r", "u", "c", "t", "o", "r">>
wObst == <<"O", "b", "s", "t">>
wEmpty == <<>>

\* Words a client may send in submit{word}.
Words == {wApfel, wapfel, wBirne, wconstructor, wEmpty}
\* Prompts a host may send in start{prompt}; the empty prompt is the missing one.
Prompts == {wObst, wBirne, wEmpty}
nAnn == <<"A", "n", "n">>
\* desiredName / rename inputs; the empty name is the absent or empty one.
Names == {nAnn, wEmpty}

\* ------------------------------------------------------------------ characters
UpperToLower == [c \in {"A", "B", "D", "H", "K", "O", "P", "Z"} |->
    CASE c = "A" -> "a" [] c = "B" -> "b" [] c = "D" -> "d" [] c = "H" -> "h"
      [] c = "K" -> "k" [] c = "O" -> "o" [] c = "P" -> "p" [] c = "Z" -> "z"]

\* String.prototype.toLowerCase, one character.
ToLowerChar(c) == IF c \in DOMAIN UpperToLower THEN UpperToLower[c] ELSE c

\* \s of a JavaScript regular expression (and what trim() strips).
IsSpace(c) == c \in {" ", "\t", "\n"}

\* [\u0000-\u001F\u007F]; \t and \n are C0 controls too.
IsControl(c) == c \in {"\t", "\n", "U0001", "U007F"}

\* \p{Diacritic}: the combining marks NFKD splits off.
IsDiacritic(c) == c \in {"U0308"}

\* NFKD of one character: a-umlaut decomposes into a + combining diaeresis.
NFKDChar(c) == IF c = "a-uml" THEN <<"a", "U0308">> ELSE <<c>>

RECURSIVE FlatMap(_, _)
FlatMap(F(_), s) == IF s = <<>> THEN <<>> ELSE F(Head(s)) \o FlatMap(F, Tail(s))

RECURSIVE Filter(_, _)
Filter(Keep(_), s) ==
    IF s = <<>> THEN <<>>
    ELSE (IF Keep(Head(s)) THEN <<Head(s)>> ELSE <<>>) \o Filter(Keep, Tail(s))

ToLowerCase(s) == [i \in 1..Len(s) |-> ToLowerChar(s[i])]

NFKD(s) == FlatMap(NFKDChar, s)

RECURSIVE TrimLeft(_)
TrimLeft(s) == IF s # <<>> /\ IsSpace(Head(s)) THEN TrimLeft(Tail(s)) ELSE s

RECURSIVE TrimRight(_)
TrimRight(s) ==
    IF s # <<>> /\ IsSpace(s[Len(s)]) THEN TrimRight(SubSeq(s, 1, Len(s) - 1)) ELSE s

\* String.prototype.trim
Trim(s) == TrimRight(TrimLeft(s))

\* replace(/\s+/g, " "): every run of whitespace becomes one space.
RECURSIVE CollapseSpaces(_)
CollapseSpaces(s) ==
    IF s = <<>> THEN <<>>
    ELSE IF IsSpace(Head(s)) THEN <<" ">> \o CollapseSpaces(TrimLeft(s))
    ELSE <<Head(s)>> \o CollapseSpaces(Tail(s))

NotControl(c) == ~IsControl(c)
NotDiacritic(c) == ~IsDiacritic(c)

DigitChar == <<"0", "1", "2", "3", "4", "5", "6", "7", "8", "9">>

\* Decimal digits of a natural number, as `${n}` prints it.
RECURSIVE Digits(_)
Digits(n) == IF n < 10 THEN <<DigitChar[n + 1]>>
             ELSE Digits(n \div 10) \o <<DigitChar[(n % 10) + 1]>>

\* "Player " + n
DefaultName(n) == <<"P", "l", "a", "y", "e", "r", " ">> \o Digits(n)

\* ------------------------------------------------------------------ numbers
\* NaN as a score, a frequency or a point value (not a number of the model).
NaN == -1

\* a + b of JavaScript numbers: NaN is absorbing.
Plus(a, b) == IF a = NaN \/ b = NaN THEN NaN ELSE a + b

\* Math.max(f - 1, 0): NaN if f is not a number.
MaxMinus1(f) == IF f = NaN THEN NaN ELSE IF f - 1 > 0 THEN f - 1 ELSE 0

\* ------------------------------------------------------------------ state.mjs
\* The registry is a Map in insertion order: a sequence of [id, name, score].
\* The round is <<>> (null) or a one-element tuple holding the round object
\* [id, prompt, status, submissions], submissions a function playerId -> raw word.

HasRound(r) == r # <<>>

Ids(ps) == {ps[i].id : i \in 1..Len(ps)}

\* state.players.has(id)
HasPlayer(ps, id) == id \in Ids(ps)

IndexOf(ps, id) == CHOOSE i \in 1..Len(ps) : ps[i].id = id

\* state.players.get(id), for an id the map has
GetPlayer(ps, id) == ps[IndexOf(ps, id)]

ScoreOf(ps, id) == GetPlayer(ps, id).score

NameOf(ps, id) == GetPlayer(ps, id).name

\* gameState()
GameStateOf(r) == IF ~HasRound(r) THEN "idle" ELSE r[1].status

NullRound == [id |-> 0, prompt |-> <<>>, status |-> "null", submissionCount |-> 0]

\* publicRound(); the JSON null is the record NullRound (status "null").
PublicRound(r) ==
    IF ~HasRound(r) THEN NullRound
    ELSE [id |-> r[1].id, prompt |-> r[1].prompt, status |-> r[1].status,
          submissionCount |-> Cardinality(DOMAIN r[1].submissions)]

\* The comparator (a, b) => b.score - a.score says "b first": a positive number.
\* A NaN difference counts as 0 (the elements compare equal).
ScoreBefore(b, a) == a.score # NaN /\ b.score # NaN /\ b.score > a.score

\* Insert x into the sorted sequence s after every element it does not precede.
RECURSIVE InsertSorted(_, _)
InsertSorted(s, x) ==
    IF s = <<>> THEN <<x>>
    ELSE IF ScoreBefore(x, s[Len(s)]) THEN InsertSorted(SubSeq(s, 1, Len(s) - 1), x) \o <<s[Len(s)]>>
    ELSE s \o <<x>>

\* Array.prototype.sort with that comparator: stable, by score descending.
RECURSIVE SortByScore(_)
SortByScore(s) ==
    IF s = <<>> THEN <<>>
    ELSE InsertSorted(SortByScore(SubSeq(s, 1, Len(s) - 1)), s[Len(s)])

\* getLeaderboard()
GetLeaderboard(ps) ==
    SortByScore([i \in 1..Len(ps) |-> [id |-> ps[i].id, name |-> ps[i].name, score |-> ps[i].score]])

NoWord == <<"(", "n", "o", "n", "e", ")">>

\* getPlayersOverview(true); a row without the word property has word NoWord.
GetPlayersOverview(ps, r) ==
    SortByScore([i \in 1..Len(ps) |->
        LET submitted == HasRound(r) /\ ps[i].id \in DOMAIN r[1].submissions
        IN  [id |-> ps[i].id, name |-> ps[i].name, score |-> ps[i].score,
             submitted |-> submitted,
             word |-> IF submitted THEN r[1].submissions[ps[i].id] ELSE NoWord]])

\* normalize(word)
Normalize(word) == CollapseSpaces(NFKD(ToLowerCase(Trim(word))))

\* A startRound that reuses the submissions map of the round it replaces.
StartRoundStale(prompt, id) ==
    <<[id |-> id, prompt |-> prompt, status |-> "collecting",
       submissions |-> IF HasRound(round) THEN round[1].submissions ELSE <<>>]>>

\* startRound(prompt), with the id crypto.randomUUID() returned
StartRound(prompt, id) ==
    <<[id |-> id, prompt |-> prompt, status |-> "collecting", submissions |-> <<>>]>>

\* Lower-case property names every plain object inherits from Object.prototype:
\* counts[key] reads the inherited value for them (normalize lower-cases, so
\* toString, valueOf and the like are never keys).
InheritedKeys == {wconstructor, <<"_", "_", "p", "r", "o", "t", "o", "_", "_">>}

\* The keys Object.entries(counts) lists: own properties only; assigning a
\* string to counts.__proto__ creates none.
OwnKeys(subs) ==
    {Normalize(subs[p]) : p \in DOMAIN subs} \ {<<"_", "_", "p", "r", "o", "t", "o", "_", "_">>}

\* counts[key] after the tally loop of closeRound: the number of submissions
\* with that normalized word; for an inherited key (inherited value || 0) + 1
\* is a string, which is not a number in the arithmetic that follows.
CountOf(subs, key) ==
    IF key \in InheritedKeys THEN NaN
    ELSE Cardinality({p \in DOMAIN subs : Normalize(subs[p]) = key})

\* A scoring loop that assigns the points of the round instead of adding them.
ScoreRoundAssign(ps, subs) ==
    [i \in 1..Len(ps) |->
        IF ps[i].id \in DOMAIN subs
        THEN [ps[i] EXCEPT !.score = MaxMinus1(CountOf(subs, Normalize(subs[ps[i].id])))]
        ELSE ps[i]]

\* The scoring loop of closeRound: players in the registry gain max(freq - 1, 0).
ScoreRound(ps, subs) ==
    [i \in 1..Len(ps) |->
        IF ps[i].id \in DOMAIN subs
        THEN [ps[i] EXCEPT !.score =
                 Plus(@, MaxMinus1(CountOf(subs, Normalize(subs[ps[i].id]))))]
        ELSE ps[i]]

\* A closeRound without the status guard: it scores a revealed round again.
CloseRoundRescoring(r, ps) ==
    IF ~HasRound(r)
    THEN [round |-> r, players |-> ps, results |-> {}, leaderboard |-> GetLeaderboard(ps)]
    ELSE LET subs == r[1].submissions
             ps2 == ScoreRound(ps, subs)
         IN  [round |-> <<[r[1] EXCEPT !.status = "revealed"]>>,
              players |-> ps2,
              results |-> {[word |-> k, freq |-> CountOf(subs, k),
                            pointsPerPlayer |-> MaxMinus1(CountOf(subs, k))] : k \in OwnKeys(subs)},
              leaderboard |-> GetLeaderboard(ps2)]

\* A closeRound that replaces the stored words by their normalized form.
CloseRoundNormalizing(r, ps) ==
    IF ~HasRound(r) \/ r[1].status # "collecting"
    THEN [round |-> r, players |-> ps, results |-> {}, leaderboard |-> GetLeaderboard(ps)]
    ELSE LET subs == r[1].submissions
             ps2 == ScoreRound(ps, subs)
         IN  [round |-> <<[r[1] EXCEPT !.status = "revealed",
                                       !.submissions = [q \in DOMAIN subs |-> Normalize(subs[q])]]>>,
              players |-> ps2,
              results |-> {[word |-> k, freq |-> CountOf(subs, k),
                            pointsPerPlayer |-> MaxMinus1(CountOf(subs, k))] : k \in OwnKeys(subs)},
              leaderboard |-> GetLeaderboard(ps2)]

\* closeRound(): the state after it and the object it returns.
CloseRound(r, ps) ==
    IF ~HasRound(r) \/ r[1].status # "collecting"
    THEN [round |-> r, players |-> ps, results |-> {}, leaderboard |-> GetLeaderboard(ps)]
    ELSE LET subs == r[1].submissions
             ps2 == ScoreRound(ps, subs)
         IN  [round |-> <<[r[1] EXCEPT !.status = "revealed"]>>,
              players |-> ps2,
              results |-> {[word |-> k, freq |-> CountOf(subs, k),
                            pointsPerPlayer |-> MaxMinus1(CountOf(subs, k))] : k \in OwnKeys(subs)},
              leaderboard |-> GetLeaderboard(ps2)]

\* A reset that zeroes the scores and keeps the players and the join counter.
ResetGameScoresOnly ==
    LET ps == [i \in 1..Len(players) |-> [players[i] EXCEPT !.score = 0]]
    IN  [round |-> <<>>, players |-> ps, joinCounter |-> joinCounter,
         leaderboard |-> GetLeaderboard(ps)]

\* resetGame(): the state after it and the object it returns.
ResetGame == [round |-> <<>>, players |-> <<>>, joinCounter |-> 0, leaderboard |-> GetLeaderboard(<<>>)]

\* A sanitizeName whose fallback reads the join counter without incrementing it.
SanitizeNameNoIncrement(name, jc) ==
    LET s1 == Filter(NotControl, name)
        s2 == CollapseSpaces(Trim(s1))
        s3 == IF s2 = <<>> THEN DefaultName(jc + 1) ELSE s2
    IN  [name |-> IF Len(s3) > 24 THEN SubSeq(s3, 1, 24) ELSE s3, joinCounter |-> jc]

\* sanitizeName(name), with the join counter it may consume
SanitizeName(name, jc) ==
    LET s1 == Filter(NotControl, name)
        s2 == CollapseSpaces(Trim(s1))
        s3 == IF s2 = <<>> THEN DefaultName(jc + 1) ELSE s2
        jc2 == IF s2 = <<>> THEN jc + 1 ELSE jc
    IN  [name |-> IF Len(s3) > 24 THEN SubSeq(s3, 1, 24) ELSE s3, joinCounter |-> jc2]

\* An ensurePlayer that gives a player it finds the desired name.
EnsurePlayerRenaming(ps, jc, id, desiredName) ==
    IF ~HasPlayer(ps, id)
    THEN LET n == IF desiredName # <<>> THEN SanitizeName(desiredName, jc)
                  ELSE [name |-> DefaultName(jc + 1), joinCounter |-> jc + 1]
             pl == [id |-> id, name |-> n.name, score |-> 0]
         IN  [created |-> TRUE, players |-> Append(ps, pl), joinCounter |-> n.joinCounter, player |-> pl]
    ELSE LET n == IF desiredName # <<>> THEN SanitizeName(desiredName, jc)
                  ELSE [name |-> NameOf(ps, id), joinCounter |-> jc]
             ps2 == [ps EXCEPT ![IndexOf(ps, id)].name = n.name]
         IN  [created |-> FALSE, players |-> ps2, joinCounter |-> n.joinCounter,
              player |-> GetPlayer(ps2, id)]

\* An ensurePlayer that numbers a default name by the size of the registry.
EnsurePlayerBySize(ps, jc, id, desiredName) ==
    IF ~HasPlayer(ps, id)
    THEN LET n == IF desiredName # <<>> /\ SanitizeName(desiredName, jc).joinCounter = jc
                  THEN SanitizeName(desiredName, jc)
                  ELSE [name |-> DefaultName(Len(ps) + 1), joinCounter |-> jc + 1]
             pl == [id |-> id, name |-> n.name, score |-> 0]
         IN  [created |-> TRUE, players |-> Append(ps, pl), joinCounter |-> n.joinCounter, player |-> pl]
    ELSE [created |-> FALSE, players |-> ps, joinCounter |-> jc, player |-> GetPlayer(ps, id)]

\* ensurePlayer(playerId, desiredName); an absent or empty desiredName is <<>>.
EnsurePlayer(ps, jc, id, desiredName) ==
    IF ~HasPlayer(ps, id)
    THEN LET n == IF desiredName # <<>> THEN SanitizeName(desiredName, jc)
                  ELSE [name |-> DefaultName(jc + 1), joinCounter |-> jc + 1]
             pl == [id |-> id, name |-> n.name, score |-> 0]
         IN  [created |-> TRUE, players |-> Append(ps, pl), joinCounter |-> n.joinCounter, player |-> pl]
    ELSE [created |-> FALSE, players |-> ps, joinCounter |-> jc, player |-> GetPlayer(ps, id)]

\* Map.prototype.set
MapSet(m, k, v) == [x \in DOMAIN m \cup {k} |-> IF x = k THEN v ELSE m[x]]

\* A recordSubmission that keeps the first word of a player.
RecordSubmissionKeepFirst(r, id, rawWord) ==
    IF ~HasRound(r) \/ r[1].status # "collecting" THEN [ok |-> FALSE, round |-> r]
    ELSE IF id \in DOMAIN r[1].submissions THEN [ok |-> TRUE, round |-> r]
    ELSE [ok |-> TRUE, round |-> <<[r[1] EXCEPT !.submissions = MapSet(@, id, rawWord)]>>]

\* A recordSubmission that reveals the round once it holds a word.
RecordSubmissionRevealing(r, id, rawWord) ==
    IF ~HasRound(r) \/ r[1].status # "collecting" THEN [ok |-> FALSE, round |-> r]
    ELSE [ok |-> TRUE, round |-> <<[r[1] EXCEPT !.submissions = MapSet(@, id, rawWord),
                                                !.status = "revealed"]>>]

\* recordSubmission(playerId, rawWord): the round after it and what it returns.
RecordSubmission(r, id, rawWord) ==
    IF ~HasRound(r) \/ r[1].status # "collecting" THEN [ok |-> FALSE, round |-> r]
    ELSE [ok |-> TRUE, round |-> <<[r[1] EXCEPT !.submissions = MapSet(@, id, rawWord)]>>]

NullName == <<"(", "n", "u", "l", "l", ")">>

\* A renamePlayer that stores the name and reports a change whatever the name was.
RenamePlayerAlwaysChanged(ps, jc, id, newName) ==
    IF ~HasPlayer(ps, id)
    THEN [name |-> NullName, changed |-> FALSE, players |-> ps, joinCounter |-> jc]
    ELSE LET clean == SanitizeName(newName, jc)
         IN  [name |-> clean.name, changed |-> TRUE,
              players |-> [ps EXCEPT ![IndexOf(ps, id)].name = clean.name],
              joinCounter |-> clean.joinCounter]

\* renamePlayer(playerId, newName)
RenamePlayer(ps, jc, id, newName) ==
    IF ~HasPlayer(ps, id)
    THEN [name |-> NullName, changed |-> FALSE, players |-> ps, joinCounter |-> jc]
    ELSE LET clean == SanitizeName(newName, jc)
             changed == clean.name # NameOf(ps, id)
         IN  [name |-> clean.name, changed |-> changed,
              players |-> IF changed THEN [ps EXCEPT ![IndexOf(ps, id)].name = clean.name] ELSE ps,
              joinCounter |-> clean.joinCounter]

\* removePlayer(playerId): Map.prototype.delete
RemovePlayer(ps, id) == LET keep(p) == p.id # id IN Filter(keep, ps)

\* ------------------------------------------------------------------ index.mjs: validator
\* norm(s)
Norm(s) == Trim(Filter(NotDiacritic, NFKD(ToLowerCase(s))))

IsSeparator(c) == IsSpace(c) \/ c \in {"-", "_"}

\* prompt.split(/[\s\-_]+/).filter(Boolean): the non-empty tokens, in order.
RECURSIVE SplitTokens(_, _)
SplitTokens(s, cur) ==
    IF s = <<>> THEN (IF cur = <<>> THEN <<>> ELSE <<cur>>)
    ELSE IF IsSeparator(Head(s))
         THEN (IF cur = <<>> THEN <<>> ELSE <<cur>>) \o SplitTokens(Tail(s), <<>>)
         ELSE SplitTokens(Tail(s), Append(cur, Head(s)))

StartsWith(s, pre) == Len(pre) <= Len(s) /\ SubSeq(s, 1, Len(pre)) = pre

EndsWith(s, suf) == Len(suf) <= Len(s) /\ SubSeq(s, Len(s) - Len(suf) + 1, Len(s)) = suf

\* const minLen = 4
minLen == 4

\* A validateAssociation whose affix rule asks for more than minLen characters.
ValidateAssociationLonger(promptRaw, candidateRaw) ==
    LET prompt == Norm(promptRaw)
        cand == Norm(candidateRaw)
        parts == SplitTokens(prompt, <<>>)
    IN  IF cand = <<>> THEN "empty"
        ELSE IF cand = prompt THEN "exact"
        ELSE IF Len(parts) > 1
             THEN (IF \E i \in 1..Len(parts) : cand = parts[i] THEN "token" ELSE "ok")
        ELSE IF Len(cand) > minLen /\ (StartsWith(prompt, cand) \/ EndsWith(prompt, cand))
             THEN "affix"
        ELSE "ok"

\* validateAssociation(promptRaw, candidateRaw): "ok" for null, else the reason
\* ("empty": Bitte gib ein Wort ein; "exact": genau das Prompt-Wort;
\*  "token": Teil des Prompts; "affix": Vorsilbe/Nachsuffix).
ValidateAssociation(promptRaw, candidateRaw) ==
    LET prompt == Norm(promptRaw)
        cand == Norm(candidateRaw)
        parts == SplitTokens(prompt, <<>>)
    IN  IF cand = <<>> THEN "empty"
        ELSE IF cand = prompt THEN "exact"
        ELSE IF Len(parts) > 1
             THEN (IF \E i \in 1..Len(parts) : cand = parts[i] THEN "token" ELSE "ok")
        ELSE IF Len(cand) >= minLen /\ (StartsWith(prompt, cand) \/ EndsWith(prompt, cand))
             THEN "affix"
        ELSE "ok"

\* ------------------------------------------------------------------ index.mjs: sending
\* A set in some fixed iteration order.
RECURSIVE SetToSeq(_)
SetToSeq(S) == IF S = {} THEN <<>> ELSE LET x == CHOOSE y \in S : TRUE IN <<x>> \o SetToSeq(S \ {x})

\* The sockets of wss.clients with readyState 1 (OPEN).
OpenSockets(sk) == {s \in Sockets : sk[s].open}

\* ws.send(JSON.stringify(msg))
Send(s, msg) == <<[to |-> s, msg |-> msg]>>

\* broadcastAll(msg)
BroadcastAll(sk, msg) ==
    LET cl == SetToSeq(OpenSockets(sk)) IN [i \in 1..Len(cl) |-> [to |-> cl[i], msg |-> msg]]

\* A broadcastHosts that iterates wss.clients instead of hostSockets.
BroadcastHostsToAll(sk, hs, msg) == BroadcastAll(sk, msg)

\* broadcastHosts(msg)
BroadcastHosts(sk, hs, msg) ==
    LET cl == SetToSeq({s \in hs : sk[s].open}) IN [i \in 1..Len(cl) |-> [to |-> cl[i], msg |-> msg]]

\* A players_overview built from the state the handler found, not the one it leaves.
PlayersOverviewMsgStale(ps, r, gs) ==
    [type |-> "players_overview", gameState |-> gs, players |-> GetPlayersOverview(players, round)]

PlayersOverviewMsg(ps, r, gs) ==
    [type |-> "players_overview", gameState |-> gs, players |-> GetPlayersOverview(ps, r)]

\* A leaderboard message built from the detailed overview of the round.
LeaderboardMsgAsOverview(ps, gs) == PlayersOverviewMsg(ps, round, gs)

\* A leaderboard message built from the registry the handler found.
LeaderboardMsgStale(ps, gs) ==
    [type |-> "leaderboard", leaderboard |-> GetLeaderboard(players), gameState |-> gs]

LeaderboardMsg(ps, gs) ==
    [type |-> "leaderboard", leaderboard |-> GetLeaderboard(ps), gameState |-> gs]

\* Array.from(state.round.submissions.keys()) while collecting, else []
SubmittedIds(r) == IF HasRound(r) /\ GameStateOf(r) = "collecting" THEN DOMAIN r[1].submissions ELSE {}

\* state.round?.submissions.size || 0
SubmissionSize(r) == IF HasRound(r) THEN Cardinality(DOMAIN r[1].submissions) ELSE 0

\* ------------------------------------------------------------------ state of the model
\* round, players, joinCounter: the singleton `state` of state.mjs.
\* socks[s]: one WebSocket connection: open (readyState OPEN and in wss.clients),
\*   the connection handler's closure variables isHost and playerId, and hello,
\*   the sequence of roles the socket has sent a hello for (history, not
\*   program state).
\* hostSockets: the Set of index.mjs.
\* roundCounter: how many round ids crypto.randomUUID() has handed out; the
\*   n-th id is n, so ids never repeat.
\* best[id]: the highest score the registry has held for that player id since
\*   the last reset (history, not program state; recorded under SpecHist only,
\*   the empty function under Spec).
\* call: one call of validateAssociation, [prompt, candidate, verdict], the
\*   verdict "none" until the function has returned (SpecValidator only, <<>>
\*   under Spec and SpecHist).
\*
\* A handler H is two operators over the current state: OnH(inputs), the
\* values of the variables after it, and HSends(inputs), the messages it
\* sends, in sending order, as [to, msg].  The action H applies OnH.

ClosedSock == [open |-> FALSE, isHost |-> FALSE, playerId |-> Null, hello |-> <<>>]

FreshSock == [open |-> TRUE, isHost |-> FALSE, playerId |-> Null, hello |-> <<>>]

\* The variables after a handler that changes nothing.
Unchanged ==
    [round |-> round, players |-> players, joinCounter |-> joinCounter, socks |-> socks,
     hostSockets |-> hostSockets, roundCounter |-> roundCounter]

Max(a, b) == IF a >= b THEN a ELSE b

\* best after a handler that leaves the registry ps: <<>> while the history
\* is not recorded.
RecordBest(ps) ==
    [id \in DOMAIN best |->
        IF HasPlayer(ps, id) /\ ScoreOf(ps, id) # NaN THEN Max(best[id], ScoreOf(ps, id))
        ELSE best[id]]

ApplyGame(e) ==
    /\ round' = e.round
    /\ players' = e.players
    /\ joinCounter' = e.joinCounter
    /\ socks' = e.socks
    /\ hostSockets' = e.hostSockets
    /\ roundCounter' = e.roundCounter
    /\ call' = call

Apply(e) == ApplyGame(e) /\ best' = RecordBest(e.players)

InitGame ==
    /\ round = <<>>
    /\ players = <<>>
    /\ joinCounter = 0
    /\ socks = [s \in Sockets |-> ClosedSock]
    /\ hostSockets = {}
    /\ roundCounter = 0

\* The state after construction; the history is not recorded.
Init == InitGame /\ best = <<>> /\ call = <<>>

\* The state after construction, the history recorded.
InitHist == InitGame /\ best = [id \in PlayerIds |-> 0] /\ call = <<>>

\* wss.on("connection"): a client connects; nothing is sent before its hello.
OnConnect(s) == [Unchanged EXCEPT !.socks = [socks EXCEPT ![s] = FreshSock]]

\* ---- POST /api/host/start with body {prompt}; <<>> is a missing or empty prompt.
\* A start handler without the check for a prompt.
OnStartAnyPrompt(prompt) ==
    [Unchanged EXCEPT !.round = StartRound(prompt, roundCounter + 1),
                      !.roundCounter = roundCounter + 1]

OnStart(prompt) ==
    IF prompt = <<>> THEN Unchanged
    ELSE [Unchanged EXCEPT !.round = StartRound(prompt, roundCounter + 1),
                           !.roundCounter = roundCounter + 1]

StartSends(prompt) ==
    IF prompt = <<>> THEN <<>>
    ELSE LET r == OnStart(prompt).round
             gs == GameStateOf(r)
         IN  BroadcastAll(socks, [type |-> "round_started", gameState |-> gs,
                                  round |-> PublicRound(r)])
             \o BroadcastHosts(socks, hostSockets, PlayersOverviewMsg(players, r, gs))
             \o BroadcastAll(socks, [type |-> "round_progress", submittedIds |-> {},
                                     gameState |-> gs])

StartResp(prompt) ==
    IF prompt = <<>> THEN [code |-> 400, error |-> "prompt required"]
    ELSE LET r == OnStart(prompt).round
         IN  [code |-> 200, ok |-> TRUE, round |-> PublicRound(r), gameState |-> GameStateOf(r)]

\* ---- POST /api/host/close
OnClose ==
    LET ret == CloseRound(round, players)
    IN  [Unchanged EXCEPT !.round = ret.round, !.players = ret.players]

\* A close handler that reads the submissions of the round itself.
ReturnedSubmissionsOfRound(r) == IF HasRound(r) THEN r[1].submissions ELSE <<>>

\* `submissions` as the close handler destructures it from closeRound()'s
\* return value: the object has no such property, and new Map(undefined) is
\* the empty map, whatever the round r holds.
ReturnedSubmissions(r) == <<>>

\* `counts` as the close handler destructures it: undefined as well; it is
\* read only for a player found in subMap, which has no entries.
ReturnedCount(r, key) == 0

\* The perPlayerRound array the close handler builds from the registry.
PerPlayerRound(ps, r) ==
    LET subMap == ReturnedSubmissions(r)
    IN  [i \in 1..Len(ps) |->
            LET submitted == ps[i].id \in DOMAIN subMap /\ subMap[ps[i].id] # <<>>
            IN  [id |-> ps[i].id, name |-> ps[i].name, submitted |-> submitted,
                 word |-> IF submitted THEN subMap[ps[i].id] ELSE <<>>,
                 pointsGained |-> IF submitted
                                  THEN MaxMinus1(ReturnedCount(r, Normalize(subMap[ps[i].id])))
                                  ELSE 0,
                 totalScore |-> ps[i].score]]

\* A round_revealed message whose gameState was read before closeRound() ran.
RoundRevealedMsgEarly ==
    LET ret == CloseRound(round, players)
    IN  [type |-> "round_revealed", gameState |-> GameStateOf(round),
         round |-> PublicRound(ret.round), results |-> ret.results,
         leaderboard |-> ret.leaderboard,
         perPlayerRound |-> PerPlayerRound(ret.players, ret.round)]

\* The round_revealed message of the close handler.
RoundRevealedMsg ==
    LET ret == CloseRound(round, players)
    IN  [type |-> "round_revealed", gameState |-> GameStateOf(ret.round),
         round |-> PublicRound(ret.round), results |-> ret.results,
         leaderboard |-> ret.leaderboard,
         perPlayerRound |-> PerPlayerRound(ret.players, ret.round)]

CloseSends ==
    LET e == OnClose
    IN  BroadcastAll(socks, RoundRevealedMsg)
        \o BroadcastHosts(socks, hostSockets,
                          PlayersOverviewMsg(e.players, e.round, GameStateOf(e.round)))

CloseResp == [code |-> 200, ok |-> TRUE, gameState |-> GameStateOf(OnClose.round)]

\* ---- POST /api/host/reset
OnReset ==
    LET ret == ResetGame
    IN  [Unchanged EXCEPT !.round = ret.round, !.players = ret.players,
                          !.joinCounter = ret.joinCounter]

ResetSends ==
    LET e == OnReset
        gs == GameStateOf(e.round)
    IN  BroadcastAll(socks, [type |-> "game_reset", gameState |-> gs, round |-> NullRound,
                             leaderboard |-> ResetGame.leaderboard])
        \o BroadcastHosts(socks, hostSockets, PlayersOverviewMsg(e.players, e.round, gs))

ResetResp == [code |-> 200, ok |-> TRUE, round |-> NullRound, gameState |-> GameStateOf(OnReset.round)]

\* ---- ws.on("close"): the socket is no longer OPEN when the handler broadcasts.
\* The branch of the close handler that removes the player is taken:
\* if (isHost) ... else if (playerId) ...
CloseRemovesPlayer(sock) == ~sock.isHost /\ sock.playerId # Null

OnDisconnect(s) ==
    LET sk == [socks EXCEPT ![s] = ClosedSock]
    IN  IF socks[s].isHost
        THEN [Unchanged EXCEPT !.socks = sk, !.hostSockets = hostSockets \ {s}]
        ELSE IF CloseRemovesPlayer(socks[s])
        THEN [Unchanged EXCEPT !.socks = sk, !.players = RemovePlayer(players, socks[s].playerId)]
        ELSE [Unchanged EXCEPT !.socks = sk]

DisconnectSends(s) ==
    LET e == OnDisconnect(s)
    IN  IF CloseRemovesPlayer(socks[s])
        THEN BroadcastHosts(e.socks, hostSockets,
                            PlayersOverviewMsg(e.players, round, GameStateOf(round)))
             \o BroadcastAll(e.socks, LeaderboardMsg(e.players, GameStateOf(round)))
        ELSE <<>>

\* ---- hello with role "viewer"
OnHelloViewer(s) == [Unchanged EXCEPT !.socks = [socks EXCEPT ![s].hello = Append(@, "viewer")]]

HelloViewerSends(s) ==
    Send(s, [type |-> "viewer_hello_ack", gameState |-> GameStateOf(round),
             round |-> PublicRound(round),
             leaderboard |-> GetLeaderboard(players),
             submittedIds |-> SubmittedIds(round)])

\* ---- hello with role "host"
\* A host hello that registers the host as a player under its socket's name.
OnHelloHostAsPlayer(s) ==
    LET ep == EnsurePlayer(players, joinCounter, s, <<>>)
    IN  [Unchanged EXCEPT
            !.players = ep.players,
            !.joinCounter = ep.joinCounter,
            !.socks = [socks EXCEPT ![s].isHost = TRUE, ![s].playerId = s,
                                    ![s].hello = Append(@, "host")],
            !.hostSockets = hostSockets \cup {s}]

OnHelloHost(s) ==
    [Unchanged EXCEPT
        !.socks = [socks EXCEPT ![s].isHost = TRUE, ![s].hello = Append(@, "host")],
        !.hostSockets = hostSockets \cup {s}]

HelloHostSends(s) ==
    Send(s, [type |-> "host_hello_ack", gameState |-> GameStateOf(round),
             round |-> PublicRound(round),
             leaderboard |-> GetLeaderboard(players),
             submissionCount |-> SubmissionSize(round)])
    \o Send(s, PlayersOverviewMsg(players, round, GameStateOf(round)))

\* ---- hello with any other role (a player), playerId being msg.playerId or
\* the id cryptoRandomId() returned; desiredName is <<>> when absent.
OnHelloPlayer(s, playerId, desiredName) ==
    LET ep == EnsurePlayer(players, joinCounter, playerId, desiredName)
    IN  [Unchanged EXCEPT
            !.players = ep.players,
            !.joinCounter = ep.joinCounter,
            !.socks = [socks EXCEPT ![s].playerId = playerId, ![s].hello = Append(@, "player")]]

HelloPlayerSends(s, playerId, desiredName) ==
    LET ep == EnsurePlayer(players, joinCounter, playerId, desiredName)
        gs == GameStateOf(round)
    IN  Send(s, [type |-> "hello_ack", playerId |-> playerId, name |-> ep.player.name,
                 round |-> PublicRound(round),
                 leaderboard |-> GetLeaderboard(ep.players),
                 alreadySubmitted |-> (HasRound(round) /\ playerId \in DOMAIN round[1].submissions),
                 submittedIds |-> SubmittedIds(round),
                 gameState |-> gs])
        \o BroadcastAll(socks, LeaderboardMsg(ep.players, gs))
        \o BroadcastAll(socks, [type |-> "submission_count",
                                count |-> SubmissionSize(round), gameState |-> gs])
        \o BroadcastHosts(socks, hostSockets, PlayersOverviewMsg(ep.players, round, gs))

\* ---- rename{name}
OnRename(s, name) ==
    IF socks[s].playerId # Null
    THEN LET rn == RenamePlayer(players, joinCounter, socks[s].playerId, name)
         IN  [Unchanged EXCEPT !.players = rn.players, !.joinCounter = rn.joinCounter]
    ELSE Unchanged

\* A rename handler that acknowledges after its broadcasts.
RenameSendsAckLast(s, name) ==
    IF socks[s].playerId # Null
    THEN LET rn == RenamePlayer(players, joinCounter, socks[s].playerId, name)
             gs == GameStateOf(round)
         IN  (IF rn.changed
              THEN BroadcastAll(socks, LeaderboardMsg(rn.players, gs))
                   \o BroadcastHosts(socks, hostSockets,
                                     PlayersOverviewMsg(rn.players, round, gs))
              ELSE <<>>)
             \o Send(s, [type |-> "rename_ack", name |-> rn.name])
    ELSE <<>>

RenameSends(s, name) ==
    IF socks[s].playerId # Null
    THEN LET rn == RenamePlayer(players, joinCounter, socks[s].playerId, name)
             gs == GameStateOf(round)
         IN  Send(s, [type |-> "rename_ack", name |-> rn.name])
             \o (IF rn.changed
                 THEN BroadcastAll(socks, LeaderboardMsg(rn.players, gs))
                      \o BroadcastHosts(socks, hostSockets,
                                        PlayersOverviewMsg(rn.players, round, gs))
                 ELSE <<>>)
    ELSE <<>>

\* ---- a message that JSON.parse rejects: the handler returns.  It changes
\* nothing, so it is no step of the model.
OnUnparsable(s) == Unchanged

UnparsableSends(s) == <<>>

\* ---- a message whose type is none of hello, rename, submit: no branch of
\* the handler takes it.
OnUnknownType(s) == Unchanged

UnknownTypeSends(s) == <<>>

\* ---- submit{word}
\* The condition under which the message handler treats a submit:
\* msg.type === "submit" && playerId && state.round && status === "collecting"
\* A submit guard that does not look at the round status.
SubmitGuardAnyStatus(s) == socks[s].playerId # Null /\ HasRound(round)

SubmitGuard(s) ==
    socks[s].playerId # Null /\ HasRound(round) /\ round[1].status = "collecting"

\* validateAssociation(state.round?.prompt || "", raw)
SubmitReason(word) == ValidateAssociation(IF HasRound(round) THEN round[1].prompt ELSE <<>>, word)

\* A submit handler that records the word before it looks at the verdict.
OnSubmitUnvalidated(s, word) ==
    IF SubmitGuard(s)
    THEN [Unchanged EXCEPT !.round = RecordSubmission(round, socks[s].playerId, word).round]
    ELSE Unchanged

OnSubmit(s, word) ==
    IF SubmitGuard(s) /\ SubmitReason(word) = "ok"
    THEN [Unchanged EXCEPT !.round = RecordSubmission(round, socks[s].playerId, word).round]
    ELSE Unchanged

SubmitSends(s, word) ==
    IF ~SubmitGuard(s) THEN <<>>
    ELSE IF SubmitReason(word) # "ok"
    THEN Send(s, [type |-> "submit_reject", reason |-> SubmitReason(word),
                  gameState |-> GameStateOf(round)])
    ELSE LET r == OnSubmit(s, word).round
             gs == GameStateOf(r)
         IN  Send(s, [type |-> "submit_ack", ok |-> TRUE, gameState |-> gs])
             \o BroadcastAll(socks, [type |-> "submission_count",
                                     count |-> SubmissionSize(r), gameState |-> gs])
             \o BroadcastAll(socks, [type |-> "round_progress",
                                     submittedIds |-> SubmittedIds(r), gameState |-> gs])
             \o BroadcastHosts(socks, hostSockets, PlayersOverviewMsg(players, r, gs))

\* ------------------------------------------------------------------ actions
\* Ids in use anywhere: cryptoRandomId() returns none of them.
UsedIds ==
    Ids(players) \cup {socks[s].playerId : s \in Sockets}
    \cup (IF HasRound(round) THEN DOMAIN round[1].submissions ELSE {})

\* The ids a hello with msg.playerId = msgPid (Null: none sent) may end up with.
HelloIds(msgPid) == IF msgPid = Null THEN PlayerIds \ UsedIds ELSE {msgPid}

\* The socket is open and may still send a hello.
CanHello(s) == socks[s].open /\ Len(socks[s].hello) < MaxHellos

CanStart(prompt) == prompt # <<>> => roundCounter < MaxRounds

CanHelloPlayer(s, pid, desiredName) ==
    CanHello(s) /\ OnHelloPlayer(s, pid, desiredName).joinCounter <= MaxJoin

CanRename(s, name) == socks[s].open /\ OnRename(s, name).joinCounter <= MaxJoin

Connect(s) == ~socks[s].open /\ Apply(OnConnect(s))

Disconnect(s) == socks[s].open /\ Apply(OnDisconnect(s))

Start(prompt) == CanStart(prompt) /\ Apply(OnStart(prompt))

Close == Apply(OnClose)

\* A reset starts the history afresh.
Reset == ApplyGame(OnReset) /\ best' = [id \in DOMAIN best |-> 0]

HelloViewer(s) == CanHello(s) /\ Apply(OnHelloViewer(s))

HelloHost(s) == CanHello(s) /\ Apply(OnHelloHost(s))

\* msgPid is msg.playerId, Null when the client sent none.
HelloPlayer(s, msgPid, desiredName) ==
    \E pid \in HelloIds(msgPid) :
        CanHelloPlayer(s, pid, desiredName) /\ Apply(OnHelloPlayer(s, pid, desiredName))

Rename(s, name) == CanRename(s, name) /\ Apply(OnRename(s, name))

Submit(s, word) == socks[s].open /\ Apply(OnSubmit(s, word))

Next ==
    \/ \E s \in Sockets : Connect(s)
    \/ \E s \in Sockets : Disconnect(s)
    \/ \E p \in Prompts : Start(p)
    \/ Close
    \/ Reset
    \/ \E s \in Sockets : HelloViewer(s)
    \/ \E s \in Sockets : HelloHost(s)
    \/ \E s \in Sockets, pid \in PlayerIds \cup {Null}, n \in Names : HelloPlayer(s, pid, n)
    \/ \E s \in Sockets, n \in Names : Rename(s, n)
    \/ \E s \in Sockets, w \in Words : Submit(s, w)

\* The program.
Spec == Init /\ [][Next]_vars

\* The program with the history variable best recorded.
SpecHist == InitHist /\ [][Next]_vars

\* ------------------------------------------------------------------ the validator alone
wDachziegel == <<"D", "a", "c", "h", "z", "i", "e", "g", "e", "l">>
wKatzeHaus == <<"K", "a", "t", "z", "e", " ", "H", "a", "u", "s">>
wKaese == <<"K", "a-uml", "s", "e">>
wHyphens5 == <<"-", "-", "-", "-", "-">>
wUnderDach == <<"_", "D", "a", "c", "h">>

\* Prompts validateAssociation is called with (state.round?.prompt || "").
ValidatorPrompts == {wDachziegel, wKatzeHaus, wKaese, wHyphens5, wUnderDach, wObst, wEmpty}

\* Candidates validateAssociation is called with (msg.word, or "" for a
\* submit without a string word).
ValidatorCandidates ==
    {wEmpty, <<" ">>, <<"U0308">>,
     <<"D", "a", "c", "h">>, <<" ", "d", "a", "c", "h", " ">>,
     <<"Z", "i", "e", "g", "e", "l">>, <<"Z", "i", "e", "g", "e">>, <<"g", "e", "l">>,
     <<"d", "a", "c", "h", "z", "i", "e", "g", "e", "l">>,
     <<"D", "a", "c", "h", "z", "i", "e", "g", "e", "l", "n">>,
     <<"K", "a", "t", "z", "e">>, <<"H", "a", "u", "s">>,
     <<"H", "a", "u", "s", "t", "i", "e", "r">>, <<"k", "a", "t", "z", "e", " ", "h", "a", "u", "s">>,
     <<"k", "a", "s", "e">>, <<"-", "-", "-", "-">>, <<"o", "b", "s">>, wApfel}

InitValidator ==
    /\ InitGame
    /\ best = <<>>
    /\ call \in [prompt : ValidatorPrompts, candidate : ValidatorCandidates, verdict : {"none"}]

\* validateAssociation(prompt, candidate) runs and returns.
Validate ==
    /\ call.verdict = "none"
    /\ call' = [call EXCEPT !.verdict = ValidateAssociation(call.prompt, call.candidate)]
    /\ UNCHANGED <<round, players, joinCounter, socks, hostSockets, roundCounter, best>>

NextValidator == Validate

\* validateAssociation, called once with any of the inputs.
SpecValidator == InitValidator /\ [][NextValidator]_vars

\* ------------------------------------------------------------------ messages of a state
\* EverySend(P): P(to, msg, e) holds of every message msg that any handler,
\* on any input it may receive in the current state, sends to socket `to`, e
\* being the variables after that handler.
EverySendOf(out, e, P(_, _, _)) == \A i \in 1..Len(out) : P(out[i].to, out[i].msg, e)

EverySend(P(_, _, _)) ==
    /\ \A p \in Prompts : CanStart(p) => EverySendOf(StartSends(p), OnStart(p), P)
    /\ EverySendOf(CloseSends, OnClose, P)
    /\ EverySendOf(ResetSends, OnReset, P)
    /\ \A s \in Sockets :
          /\ socks[s].open => EverySendOf(DisconnectSends(s), OnDisconnect(s), P)
          /\ CanHello(s) => EverySendOf(HelloViewerSends(s), OnHelloViewer(s), P)
          /\ CanHello(s) => EverySendOf(HelloHostSends(s), OnHelloHost(s), P)
          /\ \A m \in PlayerIds \cup {Null}, n \in Names : \A pid \in HelloIds(m) :
                CanHelloPlayer(s, pid, n)
                    => EverySendOf(HelloPlayerSends(s, pid, n), OnHelloPlayer(s, pid, n), P)
          /\ \A n \in Names :
                CanRename(s, n) => EverySendOf(RenameSends(s, n), OnRename(s, n), P)
          /\ \A w \in Words :
                socks[s].open => EverySendOf(SubmitSends(s, w), OnSubmit(s, w), P)

\* P holds of the state every handler but reset leaves, from the current state.
EveryGameStep(P(_)) ==
    /\ \A p \in Prompts : P(OnStart(p))
    /\ P(OnClose)
    /\ \A s \in Sockets :
          /\ ~socks[s].open => P(OnConnect(s))
          /\ socks[s].open => P(OnDisconnect(s))
          /\ socks[s].open => P(OnHelloViewer(s)) /\ P(OnHelloHost(s))
          /\ \A pid \in PlayerIds, n \in Names : socks[s].open => P(OnHelloPlayer(s, pid, n))
          /\ \A n \in Names : socks[s].open => P(OnRename(s, n))
          /\ \A w \in Words : socks[s].open => P(OnSubmit(s, w))

\* The raw words stored in a round.
RawWordsOf(r) == IF HasRound(r) THEN {r[1].submissions[p] : p \in DOMAIN r[1].submissions} ELSE {}

\* The words a message carries, in whatever field.
WordsIn(msg) ==
    IF msg.type = "players_overview"
    THEN {msg.players[i].word : i \in {j \in 1..Len(msg.players) : msg.players[j].submitted}}
    ELSE IF msg.type = "round_revealed"
    THEN {x.word : x \in msg.results}
         \cup ({msg.perPlayerRound[i].word : i \in 1..Len(msg.perPlayerRound)} \ {<<>>})
    ELSE {}

\* The socket has sent a hello with role viewer.
IsViewer(sk, s) == \E i \in 1..Len(sk[s].hello) : sk[s].hello[i] = "viewer"

\* ------------------------------------------------------------------ C1
NoRawWord(to, msg, e) ==
    IsViewer(e.socks, to) => WordsIn(msg) \cap (RawWordsOf(round) \cup RawWordsOf(e.round)) = {}

NoPerPlayerWord(to, msg, e) ==
    (IsViewer(e.socks, to) /\ to \notin e.hostSockets) =>
        /\ msg.type # "players_overview"
        /\ msg.type = "round_revealed" =>
              /\ \A i \in 1..Len(msg.perPlayerRound) :
                    msg.perPlayerRound[i].word = <<>> /\ ~msg.perPlayerRound[i].submitted
              /\ \A x \in msg.results : x.word \in {Normalize(w) : w \in RawWordsOf(round)}
        /\ msg.type # "round_revealed" => WordsIn(msg) = {}

C2_SubmitOnlyWhileCollecting ==
    /\ [](\A s \in Sockets, w \in Words :
            (socks[s].open /\ GameStateOf(round) # "collecting")
                => (OnSubmit(s, w) = Unchanged /\ SubmitSends(s, w) = <<>>))
    /\ [][(GameStateOf(round) = "revealed" /\ HasRound(round') /\ round'[1].id = round[1].id)
            => (round'[1].submissions = round[1].submissions /\ round'[1].status = "revealed")]_vars

\* A registered player's socket is open while the round is revealed and
\* holds submissions.
C2_Witness ==
    /\ GameStateOf(round) = "revealed"
    /\ RawWordsOf(round) # {}
    /\ \E s \in Sockets : socks[s].open /\ HasPlayer(players, socks[s].playerId)

\* ------------------------------------------------------------------ C3
Points(f) == IF f - 1 > 0 THEN f - 1 ELSE 0

\* C3: closing a collecting round adds max(f - 1, 0) to the score of every
\* registered submitter, f the number of submissions with the same normalized
\* word, keeps every other score, and returns one result per distinct
\* normalized word with freq = f and pointsPerPlayer = max(f - 1, 0).
C3_ScoringAtClose ==
    GameStateOf(round) = "collecting" =>
        LET subs == round[1].submissions
            ret == CloseRound(round, players)
            Freq(k) == Cardinality({q \in DOMAIN subs : Normalize(subs[q]) = k})
            keys == {Normalize(subs[q]) : q \in DOMAIN subs}
        IN  /\ Len(ret.players) = Len(players)
            /\ \A i \in 1..Len(players) :
                  /\ ret.players[i].id = players[i].id
                  /\ ret.players[i].score =
                        IF players[i].id \in DOMAIN subs
                        THEN players[i].score + Points(Freq(Normalize(subs[players[i].id])))
                        ELSE players[i].score
            /\ {x.word : x \in ret.results} = keys
            /\ Cardinality(ret.results) = Cardinality(keys)
            /\ \A x \in ret.results : x.freq = Freq(x.word) /\ x.pointsPerPlayer = Points(x.freq)

\* ------------------------------------------------------------------ C4
\* What closeRound() does and returns in the state e a handler has left.
CloseAgain(e) == CloseRound(e.round, e.players)

\* C4: a close that follows a close applies no scoring: it changes no score,
\* leaves the round revealed and returns an empty results list; so does every
\* close of a round that is already revealed.
C4_CloseIdempotent ==
    /\ GameStateOf(round) = "collecting" =>
          /\ GameStateOf(OnClose.round) = "revealed"
          /\ CloseAgain(OnClose).players = OnClose.players
          /\ CloseAgain(OnClose).round = OnClose.round
          /\ CloseAgain(OnClose).results = {}
    /\ GameStateOf(round) = "revealed" =>
          /\ OnClose = Unchanged
          /\ CloseRound(round, players).results = {}

\* A revealed round whose close gave a point: a second close would give it again.
C4_Witness ==
    /\ GameStateOf(round) = "revealed"
    /\ \E i \in 1..Len(players) :
          /\ players[i].score >= 1
          /\ players[i].id \in DOMAIN round[1].submissions

\* ------------------------------------------------------------------ C5
CoarseSteps ==
    {<<"idle", "collecting">>, <<"collecting", "revealed">>, <<"revealed", "collecting">>}

KeepsCollectingRound(e) ==
    /\ GameStateOf(round) = "collecting" =>
          /\ HasRound(e.round)
          /\ e.round[1].id = round[1].id
          /\ e.round[1].prompt = round[1].prompt
          /\ DOMAIN round[1].submissions \subseteq DOMAIN e.round[1].submissions
    /\ GameStateOf(e.round) # GameStateOf(round) =>
          <<GameStateOf(round), GameStateOf(e.round)>> \in CoarseSteps

\* C5: no handler but reset replaces a collecting round (a start request
\* included): its id, prompt and recorded submissions are kept until it is
\* closed or the game is reset; the coarse state changes only idle ->
\* collecting, collecting -> revealed, revealed -> collecting, and by reset to
\* idle.
C5_StartOnlyFromIdleOrRevealed ==
    EveryGameStep(KeepsCollectingRound) /\ GameStateOf(OnReset.round) = "idle"

\* ------------------------------------------------------------------ C6
\* C6: every successful start with prompt P gives gameState collecting, the
\* prompt P, an empty submissions map and a round id that differs from the id
\* of the round before.
C6_StartGivesFreshRound ==
    \A p \in Prompts \ {<<>>} :
        LET e == OnStart(p)
        IN  /\ StartResp(p).code = 200
            /\ GameStateOf(e.round) = "collecting"
            /\ e.round[1].prompt = p
            /\ DOMAIN e.round[1].submissions = {}
            /\ HasRound(round) => e.round[1].id # round[1].id
            /\ StartResp(p).gameState = "collecting"

\* A second round has just been started after a round that held submissions
\* and gave points.
C6_Witness ==
    /\ roundCounter = 2
    /\ GameStateOf(round) = "collecting"
    /\ DOMAIN round[1].submissions = {}
    /\ \E i \in 1..Len(players) : players[i].score >= 1

\* ------------------------------------------------------------------ C7
\* C7: the submissions map holds one raw word per player id: an accepted
\* submit stores its raw word for the sender, leaves the words of the others,
\* and raises the submission count by one if the sender had no word and by
\* zero if it had one (overwrite, no append).
C7_OneWordPerPlayerLastWins ==
    \A s \in Sockets, w \in Words :
        (socks[s].open /\ SubmitGuard(s) /\ SubmitReason(w) = "ok") =>
            LET pid == socks[s].playerId
                old == round[1].submissions
                new == OnSubmit(s, w).round[1].submissions
            IN  /\ new[pid] = w
                /\ DOMAIN new = DOMAIN old \cup {pid}
                /\ \A q \in DOMAIN old \ {pid} : new[q] = old[q]
                /\ SubmissionSize(OnSubmit(s, w).round) =
                      SubmissionSize(round) + (IF pid \in DOMAIN old THEN 0 ELSE 1)
                /\ Len(SubmitSends(s, w)) >= 1
                /\ SubmitSends(s, w)[1].msg.type = "submit_ack"

\* A player that has a word in the collecting round can submit another one.
C7_Witness ==
    /\ GameStateOf(round) = "collecting"
    /\ \E s \in Sockets :
          /\ socks[s].open
          /\ socks[s].playerId \in DOMAIN round[1].submissions
          /\ \E w \in Words : SubmitReason(w) = "ok" /\ w # round[1].submissions[socks[s].playerId]
    /\ Cardinality(DOMAIN round[1].submissions) = 2

ScoreKept(e) ==
    /\ \A id \in Ids(players) \cap Ids(e.players) :
          \/ ScoreOf(e.players, id) = NaN
          \/ ScoreOf(players, id) # NaN /\ ScoreOf(e.players, id) >= ScoreOf(players, id)
    /\ \A id \in Ids(e.players) \ Ids(players) : ScoreOf(e.players, id) = 0

C9_SubmittersRegistered ==
    HasRound(round) => DOMAIN round[1].submissions \subseteq Ids(players)

\* ------------------------------------------------------------------ C10
\* C10: after a reset the round is null (gameState idle), the registry is
\* empty, the join counter is 0, and the next player created without a
\* desired name is "Player 1" with score 0.
C10_ResetStartsFresh ==
    LET e == OnReset
    IN  /\ e.round = <<>>
        /\ GameStateOf(e.round) = "idle"
        /\ e.players = <<>>
        /\ e.joinCounter = 0
        /\ ResetGame.leaderboard = <<>>
        /\ ResetResp.gameState = "idle"
        /\ \A id \in PlayerIds :
              LET ep == EnsurePlayer(e.players, e.joinCounter, id, <<>>)
              IN  /\ ep.created
                  /\ ep.player.name = <<"P", "l", "a", "y", "e", "r", " ", "1">>
                  /\ ep.player.score = 0

\* A reset has run after a round was started and a player had joined: the
\* socket of that player is still bound to its id.
C10_Witness ==
    /\ round = <<>>
    /\ players = <<>>
    /\ joinCounter = 0
    /\ roundCounter >= 1
    /\ \E s \in Sockets : socks[s].open /\ socks[s].playerId # Null

\* ------------------------------------------------------------------ C11
\* The states a hello of any role on the socket s leaves, from the current state.
HelloOutcomes(s) ==
    {OnHelloViewer(s), OnHelloHost(s)}
    \cup {OnHelloPlayer(s, pid, n) : pid \in PlayerIds, n \in Names}

\* C11: a socket is tagged once, at its first hello: a hello on a socket that
\* has already sent one changes neither its role (isHost, membership in the
\* host set) nor its playerId, and no socket is in the host set and bound to
\* a playerId at the same time, before or after a hello.
C11_RoleTaggedOnce ==
    \A s \in Sockets :
        /\ ~(s \in hostSockets /\ socks[s].playerId # Null)
        /\ (socks[s].open /\ Len(socks[s].hello) >= 1) =>
              \A e \in HelloOutcomes(s) :
                  /\ e.socks[s].isHost = socks[s].isHost
                  /\ e.socks[s].playerId = socks[s].playerId
                  /\ (s \in e.hostSockets) = (s \in hostSockets)
                  /\ ~(s \in e.hostSockets /\ e.socks[s].playerId # Null)

\* ------------------------------------------------------------------ C12
BroadcastTypes == {"leaderboard", "submission_count", "round_progress", "players_overview"}

\* The first message of out is the acknowledgement ack to the socket s, and
\* every message after it is a broadcast.
AckFirst(out, s, ack) ==
    /\ Len(out) >= 1
    /\ out[1].to = s
    /\ out[1].msg.type = ack
    /\ \A i \in 2..Len(out) : out[i].msg.type \in BroadcastTypes

\* C12: a player hello, a rename and an accepted submit send their unicast
\* acknowledgement (hello_ack, rename_ack, submit_ack) to the acting socket
\* before every broadcast they cause.
C12_AckBeforeBroadcasts ==
    \A s \in Sockets : socks[s].open =>
        /\ \A pid \in PlayerIds, n \in Names :
              AckFirst(HelloPlayerSends(s, pid, n), s, "hello_ack")
        /\ \A n \in Names :
              socks[s].playerId # Null => AckFirst(RenameSends(s, n), s, "rename_ack")
        /\ \A w \in Words :
              (SubmitGuard(s) /\ SubmitReason(w) = "ok")
                  => AckFirst(SubmitSends(s, w), s, "submit_ack")

\* A registered player and a host are connected while a round is collecting:
\* each of the three actions sends an acknowledgement and broadcasts.
C12_Witness ==
    /\ GameStateOf(round) = "collecting"
    /\ \E s \in Sockets, h \in Sockets :
          /\ socks[s].open /\ HasPlayer(players, socks[s].playerId)
          /\ socks[h].open /\ h \in hostSockets /\ h # s

\* ------------------------------------------------------------------ C13
\* The message types that carry counts and submitter ids but no word field.
WordlessTypes ==
    {"hello_ack", "viewer_hello_ack", "host_hello_ack", "submission_count", "round_progress",
     "leaderboard", "round_started", "submit_ack", "submit_reject", "rename_ack"}

NoWordWhileCollecting(to, msg, e) ==
    (GameStateOf(e.round) = "collecting" /\ to \notin e.hostSockets) =>
        /\ msg.type \in WordlessTypes
        /\ WordsIn(msg) = {}
        /\ msg.type \in {"hello_ack", "viewer_hello_ack", "round_progress"}
              => msg.submittedIds \subseteq DOMAIN e.round[1].submissions
        /\ msg.type = "submission_count" => msg.count = SubmissionSize(e.round)

\* C13: while a round is collecting, a message delivered to a socket outside
\* the host set carries no submitted word: it is one of the wordless types,
\* and what it tells about submissions is the ids of the submitters
\* (submittedIds) or their number (count).
C13_NoWordOutsideHostsWhileCollecting == EverySend(NoWordWhileCollecting)

\* Two players are connected, neither a host, while the collecting round
\* holds the word of one of them only.
C13_Witness ==
    /\ GameStateOf(round) = "collecting"
    /\ hostSockets = {}
    /\ \E s \in Sockets, o \in Sockets :
          /\ socks[s].open /\ socks[o].open
          /\ socks[s].playerId \in DOMAIN round[1].submissions
          /\ HasPlayer(players, socks[o].playerId)
          /\ socks[o].playerId \notin DOMAIN round[1].submissions

\* ------------------------------------------------------------------ C14
\* The socket has sent a hello with role host.
IsHostRole(sk, s) == \E i \in 1..Len(sk[s].hello) : sk[s].hello[i] = "host"

OverviewToHostsOnly(to, msg, e) ==
    msg.type = "players_overview" =>
        /\ e.socks[to].open
        /\ IsHostRole(e.socks, to)
        /\ to \in e.hostSockets

\* C14: a players_overview message is delivered only to an open socket that
\* has sent a hello with role host and is in the host set; a socket that
\* handshook as player or viewer only never receives one.
C14_OverviewToHostsOnly == EverySend(OverviewToHostsOnly)

\* A host, and a player that is no host, are connected while the collecting
\* round holds a word: the overview of the next mutation carries it.
C14_Witness ==
    /\ GameStateOf(round) = "collecting"
    /\ RawWordsOf(round) # {}
    /\ \E h \in Sockets, s \in Sockets :
          /\ socks[h].open /\ h \in hostSockets /\ IsHostRole(socks, h)
          /\ socks[s].open /\ s \notin hostSockets /\ socks[s].playerId # Null

\* ------------------------------------------------------------------ C15
\* C15: the round_revealed message of a close of a collecting round has one
\* perPlayerRound entry per registered player, with submitted = TRUE and the
\* raw word exactly for the players with a submission in the round,
\* pointsGained the amount the close added to the score, and totalScore the
\* score after the close.
C15_PerPlayerRoundOfReveal ==
    GameStateOf(round) = "collecting" =>
        LET subs == round[1].submissions
            after == OnClose.players
            ppr == RoundRevealedMsg.perPlayerRound
        IN  /\ Len(ppr) = Len(players)
            /\ \A i \in 1..Len(ppr) :
                  /\ ppr[i].id = players[i].id
                  /\ ppr[i].submitted = (players[i].id \in DOMAIN subs)
                  /\ ppr[i].word = (IF players[i].id \in DOMAIN subs
                                    THEN subs[players[i].id] ELSE <<>>)
                  /\ ppr[i].totalScore = after[i].score
                  /\ after[i].score # NaN
                        => ppr[i].pointsGained = after[i].score - players[i].score

\* ------------------------------------------------------------------ C16
\* The tokens of p: its maximal runs of characters that are no separator.
TokensOf(p) ==
    {SubSeq(p, i, j) : <<i, j>> \in
        {x \in (1..Len(p)) \X (1..Len(p)) :
            /\ x[1] <= x[2]
            /\ \A k \in x[1]..x[2] : ~IsSeparator(p[k])
            /\ (x[1] = 1 \/ IsSeparator(p[x[1] - 1]))
            /\ (x[2] = Len(p) \/ IsSeparator(p[x[2] + 1]))}}

\* The number of tokens: the positions where a token starts.
TokenCount(p) ==
    Cardinality({i \in 1..Len(p) : ~IsSeparator(p[i]) /\ (i = 1 \/ IsSeparator(p[i - 1]))})

\* p starts with or ends with c.
IsAffix(p, c) ==
    \E k \in 1..Len(p) : SubSeq(p, 1, k) = c \/ SubSeq(p, Len(p) - k + 1, Len(p)) = c

\* The verdict of the four rules, the first matching one winning; rule 4
\* applies to the prompts whose number of tokens is in the set single.
RuleVerdict(prompt, candidate, single) ==
    LET p == Norm(prompt)
        c == Norm(candidate)
    IN  IF c = <<>> THEN "empty"
        ELSE IF c = p THEN "exact"
        ELSE IF TokenCount(p) > 1 /\ c \in TokensOf(p) THEN "token"
        ELSE IF TokenCount(p) \in single /\ Len(c) >= 4 /\ IsAffix(p, c) THEN "affix"
        ELSE "ok"

\* C16 as stated: validateAssociation rejects exactly by the four rules, rule
\* 4 for a prompt that is a single token.
C16_ValidatorRules ==
    call.verdict # "none" => call.verdict = RuleVerdict(call.prompt, call.candidate, {1})

\* C16 amended: validateAssociation rejects exactly by the four rules, rule 4
\* for a prompt that does not split into more than one token (a single token,
\* or none when the prompt consists of separators only); a candidate longer
\* than a single-token prompt is accepted, and the examples of the
\* specification come out as given.
C16_ValidatorRulesAtMostOneToken ==
    call.verdict # "none" =>
        /\ call.verdict = RuleVerdict(call.prompt, call.candidate, {0, 1})
        /\ (TokenCount(Norm(call.prompt)) = 1 /\ Len(Norm(call.candidate)) > Len(Norm(call.prompt)))
              => call.verdict = "ok"
        /\ call.prompt = wDachziegel =>
              /\ call.candidate = <<"D", "a", "c", "h">> => call.verdict = "affix"
              /\ call.candidate = <<"Z", "i", "e", "g", "e", "l">> => call.verdict = "affix"
              /\ call.candidate = <<"Z", "i", "e", "g", "e">> => call.verdict = "ok"
        /\ call.prompt = wKatzeHaus =>
              /\ call.candidate = <<"K", "a", "t", "z", "e">> => call.verdict = "token"
              /\ call.candidate = <<"H", "a", "u", "s", "t", "i", "e", "r">> => call.verdict = "ok"

\* The validator has rejected Dach for the prompt Dachziegel.
C16_Witness ==
    /\ call # <<>>
    /\ call.prompt = wDachziegel
    /\ call.candidate = <<"D", "a", "c", "h">>
    /\ call.verdict = "affix"

\* ------------------------------------------------------------------ C17
\* C17: when the validator rejects a submitted word, nothing is recorded and
\* nothing changes (submissions, status, scores), and the only message sent
\* is one submit_reject with the reason, to the submitting socket.
C17_RejectChangesNothing ==
    \A s \in Sockets, w \in Words :
        (socks[s].open /\ SubmitGuard(s) /\ SubmitReason(w) # "ok") =>
            /\ OnSubmit(s, w) = Unchanged
            /\ Len(SubmitSends(s, w)) = 1
            /\ SubmitSends(s, w)[1].to = s
            /\ SubmitSends(s, w)[1].msg.type = "submit_reject"
            /\ SubmitSends(s, w)[1].msg.reason = SubmitReason(w)
            /\ SubmitSends(s, w)[1].msg.gameState = "collecting"

\* A player that has a word in the collecting round can send the prompt
\* itself, which the validator rejects.
C17_Witness ==
    \E s \in Sockets :
        /\ socks[s].open /\ SubmitGuard(s)
        /\ socks[s].playerId \in DOMAIN round[1].submissions
        /\ SubmitReason(wBirne) = "exact"

\* ------------------------------------------------------------------ C18
\* C18: a start request without a prompt (missing or empty) is answered with
\* status 400, changes nothing (round, registry, join counter) and sends no
\* message.
C18_StartWithoutPromptRefused ==
    /\ StartResp(wEmpty).code = 400
    /\ OnStart(wEmpty) = Unchanged
    /\ StartSends(wEmpty) = <<>>

\* A host is connected while a revealed round holds submissions: a start
\* would replace the round and broadcast.
C18_Witness ==
    /\ GameStateOf(round) = "revealed"
    /\ RawWordsOf(round) # {}
    /\ \E h \in Sockets : socks[h].open /\ h \in hostSockets

\* ------------------------------------------------------------------ C19
\* C19: a malformed message on an open socket (unparsable text, an unknown
\* type, a submit without a word, a rename without a name) is ignored: it
\* changes nothing and no message is sent to any socket.
C19_MalformedIgnored ==
    \A s \in Sockets : socks[s].open =>
        /\ OnUnparsable(s) = Unchanged /\ UnparsableSends(s) = <<>>
        /\ OnUnknownType(s) = Unchanged /\ UnknownTypeSends(s) = <<>>
        /\ OnSubmit(s, wEmpty) = Unchanged /\ SubmitSends(s, wEmpty) = <<>>
        /\ OnRename(s, wEmpty) = Unchanged /\ RenameSends(s, wEmpty) = <<>>

\* ------------------------------------------------------------------ C20
\* C20: ensurePlayer(id, desiredName) for an id in the registry returns
\* created = FALSE and that player, and changes neither the registry nor the
\* join counter, whatever desiredName is; for a new id it returns created =
\* TRUE and adds exactly one entry, with score 0, after the entries it keeps.
C20_EnsurePlayerUpsert ==
    \A id \in PlayerIds, n \in Names \cup {wApfel, <<" ">>} :
        LET ep == EnsurePlayer(players, joinCounter, id, n)
        IN  IF HasPlayer(players, id)
            THEN /\ ~ep.created
                 /\ ep.players = players
                 /\ ep.joinCounter = joinCounter
                 /\ ep.player = GetPlayer(players, id)
                 /\ EnsurePlayer(ep.players, ep.joinCounter, id, n) = ep
            ELSE /\ ep.created
                 /\ Len(ep.players) = Len(players) + 1
                 /\ SubSeq(ep.players, 1, Len(players)) = players
                 /\ ep.players[Len(ep.players)].id = id
                 /\ ep.players[Len(ep.players)].score = 0
                 /\ ep.player = ep.players[Len(ep.players)]
                 /\ ~EnsurePlayer(ep.players, ep.joinCounter, id, n).created
                 /\ EnsurePlayer(ep.players, ep.joinCounter, id, n).players = ep.players
                 /\ EnsurePlayer(ep.players, ep.joinCounter, id, n).joinCounter = ep.joinCounter

\* A player that has gained a point is registered, and a socket that has sent
\* no hello yet is open: a hello with that player's id and a desired name
\* calls ensurePlayer for an id the registry has.
C20_Witness ==
    /\ \E i \in 1..Len(players) : players[i].score >= 1
    /\ \E s \in Sockets : CanHello(s)

\* ------------------------------------------------------------------ C21
\* Names a rename may carry: those of Names, and Ann with spaces and a
\* control character around it, which sanitizes to Ann.
RenameInputs == Names \cup {<<" ", "A", "n", "n", "\t">>, <<"U0001", "A", "n", "n">>}

\* C21: a rename whose sanitized name equals the player's current name
\* reports changed = FALSE, leaves the registry unchanged and sends only a
\* rename_ack to the requesting socket; a rename that changes the name stores
\* the sanitized name the rename_ack returns, and no other entry changes.
C21_RenameSameNameOnlyAck ==
    \A s \in Sockets, n \in RenameInputs :
        (socks[s].open /\ HasPlayer(players, socks[s].playerId)) =>
            LET id == socks[s].playerId
                rn == RenamePlayer(players, joinCounter, id, n)
                out == RenameSends(s, n)
            IN  /\ rn.name = SanitizeName(n, joinCounter).name
                /\ rn.changed = (rn.name # NameOf(players, id))
                /\ Len(out) >= 1 /\ out[1].to = s
                /\ out[1].msg = [type |-> "rename_ack", name |-> rn.name]
                /\ ~rn.changed =>
                      /\ OnRename(s, n).players = players
                      /\ Len(out) = 1
                /\ rn.changed =>
                      /\ NameOf(OnRename(s, n).players, id) = rn.name
                      /\ \A i \in 1..Len(players) :
                            players[i].id # id => OnRename(s, n).players[i] = players[i]
                      /\ \E i \in 2..Len(out) : out[i].msg.type = "leaderboard"

\* A player named Ann and another socket are connected: a rename to Ann
\* would reach the other socket if it were broadcast.
C21_Witness ==
    \E s \in Sockets, o \in Sockets :
        /\ s # o /\ socks[s].open /\ socks[o].open
        /\ HasPlayer(players, socks[s].playerId)
        /\ NameOf(players, socks[s].playerId) = nAnn

\* ------------------------------------------------------------------ C22
\* The socket record has completed a player handshake.
HelloedAsPlayer(sock) == \E i \in 1..Len(sock.hello) : sock.hello[i] = "player"

\* The ids a message lists in its leaderboard or its players overview.
ListedIds(msg) ==
    (IF "leaderboard" \in DOMAIN msg
     THEN {msg.leaderboard[i].id : i \in 1..Len(msg.leaderboard)} ELSE {})
    \cup (IF msg.type = "players_overview"
          THEN {msg.players[i].id : i \in 1..Len(msg.players)} ELSE {})

ListsRegisteredOnly(to, msg, e) == ListedIds(msg) \subseteq Ids(e.players)

\* C22: when a socket that completed a player handshake closes, its player
\* is deleted: the id is absent from the registry and from the leaderboard
\* and players_overview the close sends; this holds whatever hello the socket
\* sent besides; afterwards every message lists registered ids only, and only
\* a player hello adds an id to the registry.
C22_ClosedPlayerDeleted ==
    /\ \A s \in Sockets :
          socks[s].open =>
              /\ HelloedAsPlayer(socks[s]) =>
                    /\ CloseRemovesPlayer(socks[s])
                    /\ ~HasPlayer(OnDisconnect(s).players, socks[s].playerId)
              /\ \A h \in HelloOutcomes(s) :
                    HelloedAsPlayer(h.socks[s]) => CloseRemovesPlayer(h.socks[s])
              /\ Ids(OnDisconnect(s).players) \subseteq Ids(players)
              /\ Ids(OnHelloViewer(s).players) \subseteq Ids(players)
              /\ Ids(OnHelloHost(s).players) \subseteq Ids(players)
              /\ \A n \in Names : Ids(OnRename(s, n).players) \subseteq Ids(players)
              /\ \A w \in Words : Ids(OnSubmit(s, w).players) \subseteq Ids(players)
    /\ \A p \in Prompts : Ids(OnStart(p).players) \subseteq Ids(players)
    /\ Ids(OnClose.players) \subseteq Ids(players)
    /\ Ids(OnReset.players) \subseteq Ids(players)
    /\ EverySend(ListsRegisteredOnly)

\* ------------------------------------------------------------------ C23
CarriesGameState(to, msg, e) ==
    "gameState" \in DOMAIN msg /\ msg.gameState = GameStateOf(e.round)

\* C23: every message the server sends, of every type, carries a gameState
\* field equal to the server's coarse state at the time of sending.
C23_EveryMessageCarriesGameState == EverySend(CarriesGameState)

\* ------------------------------------------------------------------ C24
\* a >= b of two scores; false when one of them is not a number.
ScoreGeq(a, b) == a # NaN /\ b # NaN /\ a >= b

\* C24: the leaderboard of every reachable registry lists each registered
\* player exactly once, with the fields id, name and score of the registry,
\* ordered by score non-increasing, players of equal score in registry order.
C24_LeaderboardSortedStable ==
    LET lb == GetLeaderboard(players)
    IN  /\ Len(lb) = Len(players)
        /\ \A i \in 1..Len(players) :
              \E j \in 1..Len(lb) :
                  lb[j] = [id |-> players[i].id, name |-> players[i].name,
                           score |-> players[i].score]
        /\ \A i, j \in 1..Len(lb) :
              i < j =>
                  /\ lb[i].id # lb[j].id
                  /\ ScoreGeq(lb[i].score, lb[j].score)
                  /\ lb[i].score = lb[j].score
                        => IndexOf(players, lb[i].id) < IndexOf(players, lb[j].id)

\* ------------------------------------------------------------------ C25
\* C25: in every reachable state, every registered player has a score that is
\* an integer >= 0 and a name that is non-empty, at most 24 characters long
\* and free of C0/DEL control characters.
C25_PlayerWellFormed ==
    \A i \in 1..Len(players) :
        /\ players[i].score \in Nat
        /\ players[i].name # <<>>
        /\ Len(players[i].name) <= 24
        /\ \A k \in 1..Len(players[i].name) : ~IsControl(players[i].name[k])

\* ------------------------------------------------------------------ C26
\* C26: a close request received when no round is active or when the round is
\* already revealed is a no-op: the state is unchanged and no round_revealed
\* message is sent to any socket.
C26_CloseOutsideCollectingSilent ==
    GameStateOf(round) # "collecting" =>
        /\ OnClose = Unchanged
        /\ \A i \in 1..Len(CloseSends) : CloseSends[i].msg.type # "round_revealed"

\* ------------------------------------------------------------------ C27
\* Q holds of the messages and the state every handler leaves, from the
\* current state, a hello on a socket that has sent one already included.
EveryHandling(Q(_, _)) ==
    /\ \A p \in Prompts : Q(StartSends(p), OnStart(p))
    /\ Q(CloseSends, OnClose)
    /\ Q(ResetSends, OnReset)
    /\ \A s \in Sockets :
          /\ ~socks[s].open => Q(<<>>, OnConnect(s))
          /\ socks[s].open =>
                /\ Q(DisconnectSends(s), OnDisconnect(s))
                /\ Q(HelloViewerSends(s), OnHelloViewer(s))
                /\ Q(HelloHostSends(s), OnHelloHost(s))
                /\ \A pid \in PlayerIds, n \in Names :
                      Q(HelloPlayerSends(s, pid, n), OnHelloPlayer(s, pid, n))
                /\ \A n \in Names : Q(RenameSends(s, n), OnRename(s, n))
                /\ \A w \in Words : Q(SubmitSends(s, w), OnSubmit(s, w))

\* The positions in out of the players_overview messages to the socket h.
OverviewsTo(out, h) ==
    {i \in 1..Len(out) : out[i].to = h /\ out[i].msg.type = "players_overview"}

\* The greatest element of a non-empty set of numbers.
Last(S) == CHOOSE i \in S : \A j \in S : j <= i

\* Every open socket of the host set either receives a players_overview, the
\* last of which is the overview of the state the handler leaves, or was in
\* the host set before a handler that leaves the overview as it was.
HostViewFresh(out, e) ==
    \A h \in e.hostSockets :
        e.socks[h].open =>
            IF OverviewsTo(out, h) # {}
            THEN out[Last(OverviewsTo(out, h))].msg.players
                    = GetPlayersOverview(e.players, e.round)
            ELSE /\ h \in hostSockets /\ socks[h].open
                 /\ GetPlayersOverview(e.players, e.round) = GetPlayersOverview(players, round)

\* C27: host view freshness.  The host set is empty at the start and every
\* handler keeps, for every open socket of the host set, the most recent
\* players_overview sent to it equal to getPlayersOverview(true) of the state
\* it leaves: a socket that joins the host set is sent the overview, and every
\* change of players, names, scores, submitted flags or raw words is reported
\* to every host by the handler that makes it.
C27_HostViewFresh ==
    /\ \A h \in hostSockets : socks[h].open
    /\ EveryHandling(HostViewFresh)

\* A host is connected while a registered player with an open socket can
\* submit, rename or leave, and a word is already in the round.
C27_Witness ==
    /\ GameStateOf(round) = "collecting"
    /\ \E h \in hostSockets, s \in Sockets \ hostSockets :
          /\ socks[h].open /\ socks[s].open
          /\ HasPlayer(players, socks[s].playerId)
          /\ socks[s].playerId \in DOMAIN round[1].submissions

\* ------------------------------------------------------------------ C28
\* The positions in out of the messages to the socket o that carry a leaderboard
\* (leaderboard, round_revealed, game_reset and the three hello acknowledgements).
LeaderboardsTo(out, o) ==
    {i \in 1..Len(out) : out[i].to = o /\ "leaderboard" \in DOMAIN out[i].msg}

\* Every open socket either receives a leaderboard, the last of which is the
\* leaderboard of the state the handler leaves, or the handler leaves the
\* leaderboard as it was.
LeaderboardFresh(out, e) ==
    \A o \in Sockets :
        e.socks[o].open =>
            IF LeaderboardsTo(out, o) # {}
            THEN out[Last(LeaderboardsTo(out, o))].msg.leaderboard = GetLeaderboard(e.players)
            ELSE GetLeaderboard(e.players) = GetLeaderboard(players)

\* C28: public leaderboard freshness.  Every handler keeps, for every open
\* socket, the most recent leaderboard it received equal to getLeaderboard()
\* of the state the handler leaves: every handler that changes the leaderboard
\* (join, effective rename, disconnect, scoring close, reset) sends a message
\* carrying the new leaderboard to every open socket, and every leaderboard a
\* handler sends last to a socket is the current one.
C28_LeaderboardFresh == EveryHandling(LeaderboardFresh)

\* Two sockets are open, one of them of a registered player that has scored,
\* while a round collects: a leave, a rename, a close or a reset changes the
\* leaderboard the other socket has.
C28_Witness ==
    /\ GameStateOf(round) = "collecting"
    /\ \E s \in Sockets, o \in Sockets \ hostSockets :
          /\ s # o /\ socks[s].open /\ socks[o].open
          /\ HasPlayer(players, socks[s].playerId)
          /\ ScoreOf(players, socks[s].playerId) >= 1

\* ------------------------------------------------------------------ C29
\* The pages cache the coarse state in lastGameState, "idle" at load.
\* onMessage of the viewer page: msg.gameState is taken first, then the
\* branches by type set their own value.
OnMessageViewer(lastGameState, msg) ==
    LET taken == IF "gameState" \in DOMAIN msg THEN msg.gameState ELSE lastGameState
    IN  IF msg.type = "round_started" THEN "collecting"
        ELSE IF msg.type = "round_revealed" THEN "revealed"
        ELSE IF msg.type = "game_reset" THEN "idle"
        ELSE taken

\* onMessage of the player page: the same, the branches for round_started
\* and round_revealed being taken only while the page is joined.
OnMessagePlayer(lastGameState, joined, msg) ==
    LET taken == IF "gameState" \in DOMAIN msg THEN msg.gameState ELSE lastGameState
        isJoined == joined \/ msg.type = "hello_ack"
    IN  IF msg.type = "round_started" /\ isJoined THEN "collecting"
        ELSE IF msg.type = "round_revealed" /\ isJoined THEN "revealed"
        ELSE IF msg.type = "game_reset" THEN "idle"
        ELSE taken

\* The role of the last hello the socket sent, Null if it sent none.
PageOf(sock) == IF sock.hello = <<>> THEN Null ELSE sock.hello[Len(sock.hello)]

\* lastGameState of the page on socket c after it has processed, in order,
\* the messages of out that are sent to it.
RECURSIVE PageAfter(_, _, _, _, _)
PageAfter(page, lastGameState, joined, out, c) ==
    IF out = <<>> THEN lastGameState
    ELSE IF Head(out).to # c THEN PageAfter(page, lastGameState, joined, Tail(out), c)
    ELSE PageAfter(page,
                   IF page = "viewer" THEN OnMessageViewer(lastGameState, Head(out).msg)
                   ELSE OnMessagePlayer(lastGameState, joined, Head(out).msg),
                   (joined \/ Head(out).msg.type = "hello_ack") /\ Head(out).msg.type # "game_reset",
                   Tail(out), c)

CoarseStates == {"idle", "collecting", "revealed"}

\* A viewer or player page that has completed its handshake and agreed with
\* the server before the handler (any cached value for a page whose handshake
\* completes in the handler) agrees with the state the handler leaves, once it
\* has processed the handler's messages.  A player page is joined from its
\* hello_ack to the next game_reset, which empties the registry.
PagesAgree(out, e) ==
    \A c \in Sockets :
        (e.socks[c].open /\ PageOf(e.socks[c]) \in {"viewer", "player"}) =>
            LET before == IF socks[c].open /\ PageOf(socks[c]) # Null
                          THEN {GameStateOf(round)} ELSE CoarseStates
                joined == socks[c].open /\ HasPlayer(players, socks[c].playerId)
            IN  \A last \in before :
                    PageAfter(PageOf(e.socks[c]), last, joined, out, c) = GameStateOf(e.round)

\* C29: client/server state agreement: after a viewer or player page that
\* completed its handshake has processed every message sent to it, its cached
\* lastGameState equals the server's coarse state, whatever the handler was
\* (a close requested while idle or revealed included).
C29_PagesAgreeWithServer == EveryHandling(PagesAgree)

\* ------------------------------------------------------------------ C30
\* C30: the points a registered submitter gains at the close of a collecting
\* round equal the number of other players still registered whose word
\* normalizes to the same key, and every result's frequency counts the words
\* of registered players only: a submission whose player has left the
\* registry adds to no score and to no frequency.  (Rounds with a word that
\* names an inherited property are left to C3.)
C30_StaleSubmissionsNotCounted ==
    (GameStateOf(round) = "collecting"
     /\ \A q \in DOMAIN round[1].submissions :
           Normalize(round[1].submissions[q]) \notin InheritedKeys) =>
        LET subs == round[1].submissions
            reg == {q \in DOMAIN subs : HasPlayer(players, q)}
            ret == CloseRound(round, players)
            Same(k) == {q \in reg : Normalize(subs[q]) = k}
        IN  /\ \A i \in 1..Len(players) :
                  players[i].id \in DOMAIN subs =>
                      ret.players[i].score
                          = players[i].score
                            + Cardinality(Same(Normalize(subs[players[i].id])) \ {players[i].id})
            /\ \A x \in ret.results :
                  x.freq = Cardinality(Same(x.word)) /\ x.freq >= 1

\* ------------------------------------------------------------------ C31
\* The player of the socket s, registered before the handler, is still
\* registered after it, with the score it had (a close may have added to it).
BoundPlayerKept(e) ==
    \A s \in Sockets :
        (socks[s].open /\ e.socks[s].open /\ HelloedAsPlayer(socks[s])
         /\ HasPlayer(players, socks[s].playerId)) =>
            /\ HasPlayer(e.players, socks[s].playerId)
            /\ \/ ScoreOf(e.players, socks[s].playerId) = ScoreOf(players, socks[s].playerId)
               \/ e = OnClose

\* C31: while a socket that completed a player handshake stays open and no
\* reset occurs, the player id bound to it stays in the registry with its
\* score, whatever handler runs for whatever socket, the close of another
\* socket that handshook with the same playerId included.
C31_BoundPlayerStaysRegistered == EveryGameStep(BoundPlayerKept)

\* ------------------------------------------------------------------ C32
\* Every id of the registry ps is the playerId of an open socket of sk.
NoOrphans(ps, sk) ==
    \A id \in Ids(ps) : \E s \in Sockets : sk[s].open /\ sk[s].playerId = id

NoOrphansAfter(e) == NoOrphans(e.players, e.socks)

\* C32: no orphan players: in every reachable state every id of the registry
\* is bound to at least one open socket, and every handler leaves it so, a
\* hello on a socket that has sent one already included.
C32_NoOrphanPlayers == NoOrphans(players, socks) /\ EveryGameStep(NoOrphansAfter)

\* ------------------------------------------------------------------ C33
\* The lifecycle of a round: its id, prompt and status; Null without a round.
LifecycleOf(r) ==
    IF HasRound(r) THEN [id |-> r[1].id, prompt |-> r[1].prompt, status |-> r[1].status]
    ELSE [id |-> 0, prompt |-> <<>>, status |-> Null]

\* C33: only host actions change the round lifecycle: a connect, a disconnect,
\* a hello of any role (also a later one), a rename, a submit (accepted or
\* rejected) and a malformed message leave the round's id, prompt and status
\* as they are and turn no round into null; a start and a close turn no round
\* into null either, only a reset does.
C33_SocketEventsKeepLifecycle ==
    /\ \A s \in Sockets :
          /\ ~socks[s].open => LifecycleOf(OnConnect(s).round) = LifecycleOf(round)
          /\ socks[s].open =>
                /\ LifecycleOf(OnDisconnect(s).round) = LifecycleOf(round)
                /\ \A e \in HelloOutcomes(s) : LifecycleOf(e.round) = LifecycleOf(round)
                /\ \A n \in Names : LifecycleOf(OnRename(s, n).round) = LifecycleOf(round)
                /\ \A w \in Words : LifecycleOf(OnSubmit(s, w).round) = LifecycleOf(round)
                /\ LifecycleOf(OnUnparsable(s).round) = LifecycleOf(round)
                /\ LifecycleOf(OnUnknownType(s).round) = LifecycleOf(round)
    /\ HasRound(round) =>
          /\ \A p \in Prompts : HasRound(OnStart(p).round)
          /\ HasRound(OnClose.round)
    /\ ~HasRound(OnReset.round)

\* A round collects while a registered player that has not submitted yet and
\* a second socket are connected: submits, renames, hellos and disconnects
\* can all happen to it.
C33_Witness ==
    /\ GameStateOf(round) = "collecting"
    /\ \E s \in Sockets, o \in Sockets :
          /\ s # o /\ socks[s].open /\ socks[o].open /\ CanHello(o)
          /\ HasPlayer(players, socks[s].playerId)
          /\ socks[s].playerId \notin DOMAIN round[1].submissions

\* ------------------------------------------------------------------ C34
\* C34: a hello with role host or role viewer creates no player: it leaves
\* the registry and the join counter unchanged and the socket's playerId as it
\* was; and for a socket bound to no playerId (one that has handshook as host
\* or viewer only) a rename and a submit change nothing and send nothing.
C34_HostViewerHelloCreatesNoPlayer ==
    \A s \in Sockets :
        socks[s].open =>
            /\ \A e \in {OnHelloViewer(s), OnHelloHost(s)} :
                  /\ e.players = players
                  /\ e.joinCounter = joinCounter
                  /\ e.round = round
                  /\ e.socks[s].playerId = socks[s].playerId
            /\ ~HelloedAsPlayer(socks[s]) =>
                  /\ socks[s].playerId = Null
                  /\ \A n \in Names : OnRename(s, n) = Unchanged /\ RenameSends(s, n) = <<>>
                  /\ \A w \in Words : OnSubmit(s, w) = Unchanged /\ SubmitSends(s, w) = <<>>

\* A socket that handshook as host, and one that handshook as viewer, are
\* open while a round collects.
C34_Witness ==
    /\ GameStateOf(round) = "collecting"
    /\ \E h \in Sockets, v \in Sockets :
          /\ socks[h].open /\ PageOf(socks[h]) = "host"
          /\ socks[v].open /\ PageOf(socks[v]) = "viewer"

\* ------------------------------------------------------------------ C35
\* Desired names that are absent, or empty once sanitized.
UnusableNames == {<<>>, <<" ">>, <<"U0001", " ", "\t">>}

\* The default names handed out so far in the session.
DefaultNamesSoFar == {DefaultName(k) : k \in 1..joinCounter}

JoinCounterKept(e) == e.joinCounter >= joinCounter

\* C35: a new player created without a usable desired name (absent, or empty
\* after sanitization) is named "Player n", n the join counter after it was
\* incremented by one; the counter never decreases but by reset, every
\* default name in the registry has a number up to the counter, and no two
\* registered players hold the same default name, so a new default name is
\* the name of no earlier player, removed or not.
C35_DefaultNamesFollowCounter ==
    /\ \A s \in Sockets, pid \in PlayerIds \ Ids(players), n \in UnusableNames :
          socks[s].open =>
              LET e == OnHelloPlayer(s, pid, n)
              IN  /\ e.joinCounter = joinCounter + 1
                  /\ NameOf(e.players, pid) = DefaultName(joinCounter + 1)
                  /\ NameOf(e.players, pid) \notin DefaultNamesSoFar
    /\ EveryGameStep(JoinCounterKept)
    /\ OnReset.joinCounter = 0
    /\ \A i \in 1..Len(players) :
          players[i].name \in DefaultNamesSoFar \cup (Names \ {<<>>})
    /\ \A i, j \in 1..Len(players) :
          (i # j /\ players[i].name = players[j].name) => players[i].name \notin DefaultNamesSoFar

\* The join counter is ahead of the registry: a player with a default name
\* has left, another with a default name is registered, and a socket may
\* send the next hello.
C35_Witness ==
    /\ joinCounter > Len(players)
    /\ \E i \in 1..Len(players) : players[i].name \in DefaultNamesSoFar
    /\ \E s \in Sockets : CanHello(s)

\* ------------------------------------------------------------------ C36
\* 1 if b, else 0.
OneIf(b) == IF b THEN 1 ELSE 0

\* C36 as stated: the join counter changes only when a new player is created
\* (and on reset): it grows by one at a hello that creates a player, and a
\* rename, a submit, a disconnect, a start, a close and a hello for a
\* registered id leave it unchanged.
C36_CounterCountsCreatedPlayers ==
    /\ \A p \in Prompts : OnStart(p).joinCounter = joinCounter
    /\ OnClose.joinCounter = joinCounter
    /\ \A s \in Sockets :
          socks[s].open =>
              /\ OnDisconnect(s).joinCounter = joinCounter
              /\ \A n \in Names \cup UnusableNames : OnRename(s, n).joinCounter = joinCounter
              /\ \A w \in Words : OnSubmit(s, w).joinCounter = joinCounter
              /\ \A pid \in PlayerIds, n \in Names \cup UnusableNames :
                    OnHelloPlayer(s, pid, n).joinCounter
                        = joinCounter + OneIf(~HasPlayer(players, pid))

\* The name is absent or empty once sanitized.
IsUnusable(n) == CollapseSpaces(Trim(Filter(NotControl, n))) = <<>>

\* C36, amended: the join counter changes only when a default name is handed
\* out (and on reset): it grows by one at a hello that creates a player
\* without a usable desired name and at a rename of a registered player to a
\* name that is absent or empty once sanitized; a hello that creates a player
\* with a usable name, a hello for a registered id, a hello as host or viewer,
\* every other rename, a submit, a disconnect, a start and a close leave it
\* unchanged, and a reset sets it to 0.
C36_CounterCountsDefaultNames ==
    /\ \A p \in Prompts : OnStart(p).joinCounter = joinCounter
    /\ OnClose.joinCounter = joinCounter
    /\ OnReset.joinCounter = 0
    /\ \A s \in Sockets :
          socks[s].open =>
              /\ OnDisconnect(s).joinCounter = joinCounter
              /\ OnHelloViewer(s).joinCounter = joinCounter
              /\ OnHelloHost(s).joinCounter = joinCounter
              /\ \A n \in Names \cup UnusableNames :
                    OnRename(s, n).joinCounter
                        = joinCounter
                          + OneIf(HasPlayer(players, socks[s].playerId) /\ IsUnusable(n))
              /\ \A w \in Words : OnSubmit(s, w).joinCounter = joinCounter
              /\ \A pid \in PlayerIds, n \in Names \cup UnusableNames :
                    OnHelloPlayer(s, pid, n).joinCounter
                        = joinCounter + OneIf(~HasPlayer(players, pid) /\ IsUnusable(n))

\* A registered player with a name of its own is connected, so the counter is
\* behind the number of players created, and its socket may rename.
C36_Witness ==
    \E s \in Sockets :
        /\ socks[s].open /\ HasPlayer(players, socks[s].playerId)
        /\ NameOf(players, socks[s].playerId) = nAnn
        /\ joinCounter < Len(players)

\* ------------------------------------------------------------------ C37
\* The example of the specification: two spaces, A, U+0001, B, three spaces,
\* C, two spaces.
nExample == <<" ", " ", "A", "U0001", "B", " ", " ", " ", "C", " ", " ">>

\* 23 letters, a space and two more letters: the 24th character is a space.
nLong == [i \in 1..26 |-> IF i = 24 THEN " " ELSE "a"]

SanitizerInputs == Names \cup UnusableNames \cup RenameInputs \cup {nExample, nLong}

\* C37: canonical names are fixed points of the sanitizer: for every input x,
\* sanitizing sanitizeName(x) yields the same string, so a rename that sends
\* back the name the last rename_ack carried reports changed = FALSE and sends
\* the rename_ack only; the example of the specification sanitizes to "AB C".
C37_SanitizerIdempotent ==
    /\ SanitizeName(nExample, joinCounter).name = <<"A", "B", " ", "C">>
    /\ \A x \in SanitizerInputs :
          LET once == SanitizeName(x, joinCounter)
          IN  SanitizeName(once.name, once.joinCounter).name = once.name
    /\ \A s \in Sockets, x \in SanitizerInputs :
          (socks[s].open /\ HasPlayer(players, socks[s].playerId)) =>
              LET e == OnRename(s, x)
                  ack == RenameSends(s, x)[1].msg.name
                  again == RenamePlayer(e.players, e.joinCounter, socks[s].playerId, ack)
              IN  ~again.changed /\ again.name = ack

\* ------------------------------------------------------------------ C38
\* C38: in every reachable state with a round, collecting or revealed, every
\* word stored in round.submissions is accepted by validateAssociation
\* against the round's prompt: it is not empty once normalized and differs
\* from the normalized prompt, and neither the token rule nor the
\* prefix/suffix rule rejects it.
C38_StoredWordsAreValid ==
    HasRound(round) =>
        \A q \in DOMAIN round[1].submissions :
            LET word == round[1].submissions[q]
            IN  /\ ValidateAssociation(round[1].prompt, word) = "ok"
                /\ Norm(word) # <<>>
                /\ Norm(word) # Norm(round[1].prompt)

\* The second round of the session, with the prompt Birne, holds a word while
\* a registered player is connected whose submit of Birne would be rejected.
C38_Witness ==
    /\ GameStateOf(round) = "collecting"
    /\ round[1].prompt = wBirne
    /\ roundCounter = MaxRounds
    /\ round[1].submissions # <<>>
    /\ \E s \in Sockets : socks[s].open /\ SubmitGuard(s) /\ SubmitReason(wBirne) # "ok"

\* ------------------------------------------------------------------ C39
\* C39: the close handler changes only the round status and the scores: it
\* leaves the round id, the prompt, the submissions map with its raw words,
\* every player's id and name in registry order, the join counter, the
\* sockets and the host set unchanged; outside a collecting round it changes
\* nothing at all.
C39_CloseFrame ==
    LET e == OnClose
    IN  /\ e.joinCounter = joinCounter
        /\ e.socks = socks
        /\ e.hostSockets = hostSockets
        /\ e.roundCounter = roundCounter
        /\ Len(e.players) = Len(players)
        /\ \A i \in 1..Len(players) :
              e.players[i].id = players[i].id /\ e.players[i].name = players[i].name
        /\ HasRound(e.round) = HasRound(round)
        /\ HasRound(round) =>
              /\ e.round[1].id = round[1].id
              /\ e.round[1].prompt = round[1].prompt
              /\ e.round[1].submissions = round[1].submissions
        /\ GameStateOf(round) = "collecting" => e.round[1].status = "revealed"
        /\ GameStateOf(round) # "collecting" => e = Unchanged

\* A collecting round holds a raw word that differs from its normalized
\* form, submitted by a registered player.
C39_Witness ==
    /\ GameStateOf(round) = "collecting"
    /\ \E q \in DOMAIN round[1].submissions :
          /\ HasPlayer(players, q)
          /\ round[1].submissions[q] # Normalize(round[1].submissions[q])

\* ------------------------------------------------------------------ C40
\* Every field of the message is the projection of the state e the handler
\* leaves: gameState, round, leaderboard, players, count and submittedIds.
ProjectsOneState(to, msg, e) ==
    /\ "gameState" \in DOMAIN msg => msg.gameState = GameStateOf(e.round)
    /\ "round" \in DOMAIN msg =>
          /\ msg.round = PublicRound(e.round)
          /\ "gameState" \in DOMAIN msg
          /\ (msg.gameState = "idle") = (msg.round = NullRound)
          /\ msg.round # NullRound =>
                /\ msg.gameState = msg.round.status
                /\ msg.round.submissionCount = SubmissionSize(e.round)
    /\ "leaderboard" \in DOMAIN msg => msg.leaderboard = GetLeaderboard(e.players)
    /\ "players" \in DOMAIN msg => msg.players = GetPlayersOverview(e.players, e.round)
    /\ "count" \in DOMAIN msg => msg.count = SubmissionSize(e.round)
    /\ "submissionCount" \in DOMAIN msg => msg.submissionCount = SubmissionSize(e.round)
    /\ "submittedIds" \in DOMAIN msg => msg.submittedIds = SubmittedIds(e.round)
    /\ msg.type \in {"round_started", "round_revealed", "game_reset", "hello_ack",
                     "host_hello_ack", "viewer_hello_ack"} => "round" \in DOMAIN msg

\* C40: every message is a projection of one state, the state right after the
\* handler's mutation: in every round_started, round_revealed, game_reset and
\* hello acknowledgement gameState is idle exactly when the round field is
\* null and otherwise equals round.status, round.submissionCount is the
\* number of recorded submissions, and no field of any message holds a value
\* of the state before the mutation.
C40_MessagesProjectOneState == EverySend(ProjectsOneState)

\* A collecting round with a word is about to be closed, started over or
\* reset while a socket is open to receive the message.
C40_Witness ==
    /\ GameStateOf(round) = "collecting"
    /\ SubmissionSize(round) >= 1
    /\ roundCounter < MaxRounds
    /\ \E s \in Sockets : socks[s].open

====
